---------------------------- MODULE Spec2Model ----------------------------
(***************************************************************************)
(* A model of mus-uc-devtools: the Marionette client                       *)
(* (src/src/marionette_client.rs) and the chrome stylesheet manager with   *)
(* its in-browser bootstrap script (src/src/chrome_css_manager.rs), the    *)
(* manifest registrar (src/src/chrome_manifest.rs) and the component-model *)
(* exports (src/src/component.rs).                                         *)
(*                                                                         *)
(* Text is a sequence of one-character strings.  Spec is the manager and   *)
(* the browser it drives; SpecWatch is the manager inside                  *)
(* watch_and_reload, and SpecWatchLive its loop with a fair loop thread;   *)
(* SpecWire is one connection at the level of the bytes on the socket;     *)
(* SpecGate is the construction of a manager over that connection;         *)
(* SpecCli is one run of run_cli (src/src/cli.rs) over that connection;    *)
(* SpecFrame is the frame encoding and decoding as a pure function;        *)
(* SpecManifest is register_manifest; SpecComponent is the exports called  *)
(* from several threads.                                                   *)
(***************************************************************************)
EXTENDS Naturals, Sequences, FiniteSets, Bags, TLC

VARIABLES
    \* ---- the manager and the browser (Spec)
    loaded_sheets,  \* ChromeCSSManager.loaded_sheets: identifier -> source text
    message_id,     \* MarionetteClient.message_id
    singleton,      \* browser: window.__$ff_chrome_css_mgr$__ exists
    sheets,         \* browser: this.sheets, identifier -> style URI
    sss,            \* browser: the style-sheet service's USER sheets, a bag of URIs
    now,            \* browser: Date.now()
    inflight,       \* responses the browser produced that no call has read yet
    result,         \* the last manager call: its arguments, its Result, what the
                    \* browser answered to it, and the registries before it
    \* ---- one connection, byte level (SpecWire)
    conn,           \* "none", "open" (a MarionetteClient exists) or "closed"
    handshake,      \* what the peer sent when the connection was made
    served,         \* what the peer sent in answer to the last request
    sent,           \* the requests written to the socket, in order
    calls,          \* number of send_command calls made on the session
    reply,          \* the Result of the last send_command
    \* ---- framing as a pure function (SpecFrame)
    payload,        \* the payload under test
    frame,          \* its encoding
    decoded,        \* what decoding the frame returned
    fpc,            \* "new", "encoded" or "decoded"
    \* ---- the construction of a manager and its scripts (SpecGate)
    entry,          \* the source file whose constructor runs, "none" before
    built,          \* "no", "yes" (the manager exists) or "failed"
    chrome,         \* a Marionette:SetContext "chrome" returned Ok on the session
    last_script,    \* the last privileged script a manager method sent
    \* ---- watch_and_reload (SpecWatch)
    wpc,            \* "idle", "waiting" (in recv_timeout), "reloading", or how
                    \* watch_and_reload returned: "err" or "ok"
    watched,        \* sheet_id of watch_and_reload
    channel,        \* the events sent on tx that rx has not received yet
    rewrites,       \* number of times the watched file was rewritten
    wlog,           \* the commands of watch_and_reload the browser ran, in order
    event,          \* the kind of the last file-system event received
    events,         \* number of events received
    \* ---- the manifest registrar (SpecManifest)
    manifest_path,  \* ChromeManifestRegistrar.manifest_path
    registered,     \* the last register_manifest call: its inputs and its Result
    \* ---- the component-model exports (SpecComponent)
    sessions,       \* for each global: its mutex, its session and the socket
    threads,        \* for each thread of the host: the export it is running
    \* ---- one run of the command line (SpecCli)
    cpc,            \* position of run_cli
    subcommand,     \* the subcommand of the run
    second,         \* the connection the screenshot and exec branches open
    cli_log         \* the commands written on the manager's session, in order

mgrVars == <<loaded_sheets, message_id, singleton, sheets, sss, now, inflight, result>>
wireVars == <<conn, handshake, served, sent, calls, reply>>
frameVars == <<payload, frame, decoded, fpc>>
gateVars == <<entry, built, chrome, last_script>>
watchVars == <<wpc, watched, channel, rewrites, wlog, event, events>>
hostVars == <<manifest_path, registered, sessions, threads>>
cliVars == <<cpc, subcommand, second, cli_log>>
vars == <<mgrVars, wireVars, frameVars, gateVars, watchVars, hostVars, cliVars>>

(***************************************************************************)
(* Bounds of the model.                                                    *)
(***************************************************************************)
MaxCalls == 5      \* commands sent on one session
MaxNow == 1        \* clock ticks of the browser
MaxInflight == 1   \* unread responses on the socket
MaxLen == 3        \* length of the enumerated payloads
MaxEvents == 3     \* file-system events delivered to watch_and_reload
MaxWatchCalls == 7 \* commands sent on the session of a watch_and_reload
MaxWrites == 2     \* requests the exports write on the session of one global

(***************************************************************************)
(* Text helpers.                                                           *)
(***************************************************************************)
\* the backtick character (the module's own lexer has no such string)
BACKTICK == "<backtick>"

Digits == <<"0", "1", "2", "3", "4", "5", "6", "7", "8", "9">>

RECURSIVE ToDecimal(_)
\* Rust's Display for an unsigned integer, as format!("{}", n) prints it
ToDecimal(n) ==
    IF n < 10 THEN <<Digits[n + 1]>>
    ELSE ToDecimal(n \div 10) \o <<Digits[(n % 10) + 1]>>

RECURSIVE Replace(_, _, _)
\* str::replace(from, to) for a one-character pattern
Replace(s, from, to) ==
    IF s = <<>> THEN <<>>
    ELSE (IF Head(s) = from THEN to ELSE <<Head(s)>>) \o Replace(Tail(s), from, to)

\* Option<&str>
None == [some |-> FALSE, v |-> <<>>]
Some(s) == [some |-> TRUE, v |-> s]

Quoted(s) == <<"\"">> \o s \o <<"\"">>

\* the payload of the error member of a remote error
NOPE == <<"n", "o", "p", "e">>

\* serde_json::Value as far as the manager looks at it, and a remote error
\* with its payload
JsString(s) == [t |-> "string", s |-> s, b |-> FALSE]
JsBool(b) == [t |-> "bool", s |-> <<>>, b |-> b]
JsError == [t |-> "error", s |-> NOPE, b |-> FALSE]
JsNull == [t |-> "null", s |-> <<>>, b |-> FALSE]

EmptyMap == <<>>
Remove(m, k) == [x \in (DOMAIN m) \ {k} |-> m[x]]
Insert(m, k, v) == (k :> v) @@ Remove(m, k)
Range(m) == {m[x] : x \in DOMAIN m}

UNKNOWN == <<"u", "n", "k", "n", "o", "w", "n">>
CLEARED == <<"c", "l", "e", "a", "r", "e", "d">>
INITIALIZED == <<"i", "n", "i", "t">>
SheetPrefix == <<"s", "h", "e", "e", "t", "-">>

(***************************************************************************)
(* The scripts load_css and unload_css build, and how the browser reads    *)
(* them.  The source text goes into a template literal with only its       *)
(* backticks escaped, the identifier into a single-quoted literal as is.   *)
(***************************************************************************)
\* JavaScript's reading of "\c" inside a literal, for the characters used
JsUnescape(c) == IF c = "n" THEN "\n" ELSE c

RECURSIVE JsCook(_, _, _)
\* The value of a literal body s closed by delimiter q; ok is FALSE when the
\* script does not parse or run: a trailing backslash swallows the closing
\* delimiter, and an unescaped delimiter inside s ends the literal early, the
\* rest of s then being read as code (no text over the modelled alphabet is
\* code that parses).
JsCook(s, q, acc) ==
    IF s = <<>> THEN [ok |-> TRUE, v |-> acc]
    ELSE IF Head(s) = "\\"
         THEN IF Len(s) = 1 THEN [ok |-> FALSE, v |-> <<>>]
              ELSE JsCook(Tail(Tail(s)), q, Append(acc, JsUnescape(s[2])))
    ELSE IF Head(s) = q THEN [ok |-> FALSE, v |-> <<>>]
    ELSE JsCook(Tail(s), q, Append(acc, Head(s)))

\* the script of load_css: load(<backtick>{}<backtick>, '{}'), or without the
\* second argument when no identifier is given
LoadScript(css_content, id) ==
    [m |-> "load", css |-> Replace(css_content, BACKTICK, <<"\\", BACKTICK>>), id |-> id]

\* the script of unload_css: unload('{}')
UnloadScript(id) == [m |-> "unload", css |-> <<>>, id |-> Some(id)]

ClearScript == [m |-> "clear", css |-> <<>>, id |-> None]
BootstrapScript == [m |-> "bootstrap", css |-> <<>>, id |-> None]

(***************************************************************************)
(* The browser: the class the bootstrap script defines.                    *)
(***************************************************************************)
Browser == [singleton |-> singleton, sheets |-> sheets, sss |-> sss]

\* load(css, id)
RemoteLoad(br, css, id) ==
    LET sheetId == IF id.some /\ id.v # <<>> THEN id.v
                   ELSE SheetPrefix \o ToDecimal(now)
        uri == css
    IN  [ret |-> JsString(sheetId),
         br |-> [br EXCEPT !.sss = @ (+) SetToBag({uri}),
                           !.sheets = Insert(@, sheetId, uri)]]

\* unload(id) without the call of unregisterSheet
RemoteUnloadKeepsSheet(br, id) ==
    IF id \notin DOMAIN br.sheets THEN [ret |-> JsBool(FALSE), br |-> br]
    ELSE [ret |-> JsBool(TRUE), br |-> [br EXCEPT !.sheets = Remove(@, id)]]

\* unload(id)
RemoteUnload(br, id) ==
    IF id \notin DOMAIN br.sheets THEN [ret |-> JsBool(FALSE), br |-> br]
    ELSE LET uri == br.sheets[id]
         IN  [ret |-> JsBool(TRUE),
              br |-> [br EXCEPT
                        !.sss = IF BagIn(uri, @) THEN @ (-) SetToBag({uri}) ELSE @,
                        !.sheets = Remove(@, id)]]

RECURSIVE RemoteClearKeys(_, _)
RemoteClearKeys(br, keys) ==
    IF keys = {} THEN br
    ELSE LET id == CHOOSE k \in keys : TRUE
         IN  RemoteClearKeys(RemoteUnload(br, id).br, keys \ {id})

\* clear()
RemoteClear(br) == RemoteClearKeys(br, DOMAIN br.sheets)

\* the bootstrap script without its guard: the class is defined and a new
\* object made on every run
RemoteBootstrapAlways(br) == [br EXCEPT !.singleton = TRUE, !.sheets = EmptyMap]

\* the bootstrap script of initialize_chrome_context
RemoteBootstrap(br) ==
    IF ~br.singleton THEN [br EXCEPT !.singleton = TRUE, !.sheets = EmptyMap]
    ELSE br

\* WebDriver:ExecuteScript in the browser: the response and the browser after
RemoteExec(br, script) ==
    IF script.m = "bootstrap"
    THEN [ret |-> JsString(INITIALIZED), br |-> RemoteBootstrap(br)]
    ELSE IF ~br.singleton THEN [ret |-> JsError, br |-> br]
    ELSE IF script.m = "clear"
    THEN [ret |-> JsString(CLEARED), br |-> RemoteClear(br)]
    ELSE LET css == JsCook(script.css, BACKTICK, <<>>)
             id == IF script.id.some THEN JsCook(script.id.v, "'", <<>>)
                   ELSE [ok |-> TRUE, v |-> <<>>]
         IN  IF ~css.ok \/ ~id.ok THEN [ret |-> JsError, br |-> br]
             ELSE IF script.m = "load"
             THEN RemoteLoad(br, css.v, [some |-> script.id.some, v |-> id.v])
             ELSE RemoteUnload(br, id.v)
(***************************************************************************)
(* The manager's calls.  What a call's execute_script does on the socket   *)
(* is one of: the request is not written ("unsent"); it is written and the *)
(* read times out ("timeout"); a response is read and does not decode      *)
(* ("garbled"); a response is read ("ok").  The browser runs every request *)
(* that was written, and a read takes the oldest unread response.          *)
(***************************************************************************)
IO == {"ok", "unsent", "timeout", "garbled"}

MARIONETTE_ERROR ==
    <<"M", "a", "r", "i", "o", "n", "e", "t", "t", "e", " ", "e", "r", "r", "o", "r", ":", " ">>

\* Display of a serde_json string: its compact JSON text
Display(s) ==
    Quoted(Replace(Replace(s, "\\", <<"\\", "\\">>), "\"", <<"\\", "\"">>))

\* the error of send_command without the payload
MarionetteErrorOpaque(error) == MARIONETTE_ERROR

\* format!("Marionette error: {}", error)
MarionetteError(error) == MARIONETTE_ERROR \o Display(error)

\* MarionetteConnection::execute_script, through send_command: the Result,
\* the browser and the unread responses after it
ExecuteScript(script, io) ==
    IF io = "unsent"
    THEN [ok |-> FALSE, val |-> JsNull, executed |-> FALSE, remote |-> JsNull,
          err |-> "transport", msg |-> <<>>,
          br |-> Browser, inflight |-> inflight]
    ELSE LET run == RemoteExec(Browser, script)
             queue == Append(inflight, run.ret)
         IN  IF io = "timeout"
             THEN [ok |-> FALSE, val |-> JsNull, executed |-> TRUE, remote |-> run.ret,
                   err |-> "timeout", msg |-> <<>>,
                   br |-> run.br, inflight |-> queue]
             ELSE IF io = "garbled"
             THEN [ok |-> FALSE, val |-> JsNull, executed |-> TRUE, remote |-> run.ret,
                   err |-> "framing", msg |-> <<>>,
                   br |-> run.br, inflight |-> Tail(queue)]
             ELSE IF Head(queue).t = "error"
             THEN [ok |-> FALSE, val |-> JsNull, executed |-> TRUE, remote |-> run.ret,
                   err |-> "remote", msg |-> MarionetteError(Head(queue).s),
                   br |-> run.br, inflight |-> Tail(queue)]
             ELSE [ok |-> TRUE, val |-> Head(queue), executed |-> TRUE, remote |-> run.ret,
                   err |-> "none", msg |-> <<>>,
                   br |-> run.br, inflight |-> Tail(queue)]

\* what every call does besides its registry update
Called(op, css, id, r) ==
    /\ message_id' = message_id + 1   \* a u32; MaxCalls keeps it far from its end
    /\ singleton' = r.br.singleton
    /\ sheets' = r.br.sheets
    /\ sss' = r.br.sss
    /\ inflight' = r.inflight
    /\ result' = [op |-> op, css |-> css, id |-> id, ok |-> r.ok, val |-> r.val,
                  executed |-> r.executed, remote |-> r.remote,
                  err |-> r.err, msg |-> r.msg,
                  clean |-> result.clean /\ r.ok,
                  before |-> [loaded_sheets |-> loaded_sheets, singleton |-> singleton,
                              sheets |-> sheets, sss |-> sss]]
    /\ UNCHANGED <<now, wireVars, frameVars, hostVars, cliVars, gateVars>>

CanCall(io) ==
    /\ message_id < (IF wpc \in {"waiting", "reloading"} THEN MaxWatchCalls ELSE MaxCalls)
    /\ io = "timeout" => Len(inflight) < MaxInflight

initialize_chrome_context(io) ==
    /\ CanCall(io)
    /\ LET r == ExecuteScript(BootstrapScript, io)
       IN  /\ Called("init", <<>>, None, r)
           /\ UNCHANGED loaded_sheets

\* load_css with the registry updated before the Result is looked at
load_css_insert_first(css_content, id, io) ==
    /\ CanCall(io)
    /\ LET r == ExecuteScript(LoadScript(css_content, id), io)
           sheet_id == IF r.val.t = "string" THEN r.val.s ELSE UNKNOWN
       IN  /\ Called("load", css_content, id, r)
           /\ loaded_sheets' = Insert(loaded_sheets, sheet_id, css_content)

load_css(css_content, id, io) ==
    /\ CanCall(io)
    /\ \E r \in {ExecuteScript(LoadScript(css_content, id), io)} :
       LET sheet_id == IF r.val.t = "string" THEN r.val.s ELSE UNKNOWN
       IN  /\ Called("load", css_content, id, r)
           /\ loaded_sheets' = IF r.ok THEN Insert(loaded_sheets, sheet_id, css_content)
                               ELSE loaded_sheets

unload_css(id, io) ==
    /\ CanCall(io)
    /\ \E r \in {ExecuteScript(UnloadScript(id), io)} :
       LET success == IF r.val.t = "bool" THEN r.val.b ELSE FALSE
       IN  /\ Called("unload", <<>>, Some(id), r)
           /\ loaded_sheets' = IF r.ok /\ success THEN Remove(loaded_sheets, id)
                               ELSE loaded_sheets

clear_all(io) ==
    /\ CanCall(io)
    /\ LET r == ExecuteScript(ClearScript, io)
       IN  /\ Called("clear", <<>>, None, r)
           /\ loaded_sheets' = IF r.ok THEN EmptyMap ELSE loaded_sheets

list_loaded == DOMAIN loaded_sheets

\* the browser's clock advances
Tick ==
    /\ now < MaxNow
    /\ now' = now + 1
    /\ UNCHANGED <<loaded_sheets, message_id, singleton, sheets, sss, inflight, result>>
    /\ UNCHANGED <<wireVars, frameVars, hostVars, cliVars, gateVars, watchVars>>

\* the texts the calls are made with
CssTexts == {<<"a">>, <<"b", BACKTICK>>}
IdTexts == {<<"k">>, <<"\\", "k">>, <<"'">>}

NoResult ==
    [op |-> "none", css |-> <<>>, id |-> None, ok |-> TRUE, val |-> JsNull,
     executed |-> FALSE, remote |-> JsNull, err |-> "none", msg |-> <<>>,
     clean |-> TRUE,
     before |-> [loaded_sheets |-> EmptyMap, singleton |-> FALSE, sheets |-> EmptyMap,
                 sss |-> EmptyBag]]

WireIdle ==
    /\ conn = "none"
    /\ handshake = [protocol |-> 0, app |-> <<>>, style |-> "none"]
    /\ served = [declared |-> 0, body |-> <<>>, end |-> "none"]
    /\ sent = <<>>
    /\ calls = 0
    /\ reply = [ok |-> TRUE, val |-> [t |-> "null", n |-> 0, s |-> <<>>, m |-> <<>>]]

FrameIdle ==
    /\ payload = <<>>
    /\ frame = <<>>
    /\ decoded = [ok |-> FALSE, json_str |-> <<>>]
    /\ fpc = "new"

GateIdle ==
    /\ entry = "none"
    /\ built = "no"
    /\ chrome = FALSE
    /\ last_script = "none"

\* serde_json::Value: t its type, n a number, s a string, m the members
JNull == [t |-> "null", n |-> 0, s |-> <<>>, m |-> <<>>]
JNumber(n) == [t |-> "number", n |-> n, s |-> <<>>, m |-> <<>>]
JString(s) == [t |-> "string", n |-> 0, s |-> s, m |-> <<>>]
JBool(b) == [t |-> "bool", n |-> IF b THEN 1 ELSE 0, s |-> <<>>, m |-> <<>>]
JObject(m) == [t |-> "object", n |-> 0, s |-> <<>>, m |-> m]

\* the paths register_manifest is called with; the working directory is /
ManifestPaths == {<<"m">>, <<"/", "m">>, <<"/", "n">>, <<"/", "'">>}

NoRegistration ==
    [called |-> FALSE, path |-> <<>>, exists |-> FALSE, utf8 |-> FALSE,
     r |-> [ok |-> FALSE, val |-> JNull], ok |-> TRUE, err |-> "none", msg |-> <<>>,
     before |-> None]

\* the globals of the component: CSS_MANAGER and MARIONETTE_CONN
Globals == {"CSS_MANAGER", "MARIONETTE_CONN"}

\* the threads of the host that call the exports
Threads == {"t1", "t2"}

\* a global before initialize or connect stored a value in it: guard is the
\* thread that holds the mutex, pending the requests written on the session
\* that the browser has not answered, socket the responses not read yet
NoSession ==
    [installed |-> FALSE, guard |-> "none", pending |-> 0, socket |-> 0, written |-> 0]

HostIdle ==
    /\ manifest_path = None
    /\ registered = NoRegistration
    /\ sessions = [g \in Globals |-> NoSession]
    /\ threads = [t \in Threads |-> [pc |-> "idle", export |-> "none", ret |-> "none"]]

\* run_cli has not been entered
CliIdle ==
    /\ cpc = "start"
    /\ subcommand = "none"
    /\ second = "none"
    /\ cli_log = <<>>

WatchIdle ==
    /\ wpc = "idle"
    /\ watched = <<>>
    /\ channel = <<>>
    /\ rewrites = 0
    /\ wlog = <<>>
    /\ event = "none"
    /\ events = 0

\* ChromeCSSManager::new has returned: connected, SetContext("chrome") answered
Init ==
    /\ loaded_sheets = EmptyMap
    /\ message_id = 1
    /\ singleton = FALSE
    /\ sheets = EmptyMap
    /\ sss = EmptyBag
    /\ now = 0
    /\ inflight = <<>>
    /\ result = NoResult
    /\ WireIdle
    /\ FrameIdle
    /\ GateIdle
    /\ WatchIdle
    /\ HostIdle
    /\ CliIdle

Next ==
    \/ \E io \in IO : initialize_chrome_context(io) /\ UNCHANGED watchVars
    \/ \E css \in CssTexts, id \in {None} \cup {Some(i) : i \in IdTexts}, io \in IO :
          load_css(css, id, io) /\ UNCHANGED watchVars
    \/ \E id \in IdTexts, io \in IO : unload_css(id, io) /\ UNCHANGED watchVars
    \/ \E io \in IO : clear_all(io) /\ UNCHANGED watchVars
    \/ Tick

Spec == Init /\ [][Next]_vars

(***************************************************************************)
(* watch_and_reload (SpecWatch): the first load, then the loop that waits  *)
(* for file-system events.  The helper thread of the watcher runs the      *)
(* closure that sends each event on tx; the loop receives them from rx.    *)
(* A turn of the loop that reloads is two steps, the unload and, after the *)
(* sleep and the file read, the load.                                      *)
(***************************************************************************)
WATCHED_SHEET == <<"w", "a", "t", "c", "h", "e", "d", "-", "s", "h", "e", "e", "t">>

\* notify::EventKind
EventKinds == {"Any", "Access", "Create", "Modify", "Remove", "Other"}

\* the events one rewrite of the file is reported as: the watcher reports
\* what the platform reports, one event or several
RewriteBursts ==
    { <<"Modify">>, <<"Modify", "Modify">>, <<"Create", "Modify">>, <<"Modify", "Access">> }

\* the event test of the loop with every kind let through
StartsReloadAny(kind) == TRUE

\* matches!(event.kind, EventKind::Modify(_) | EventKind::Create(_))
StartsReload(kind) == kind \in {"Modify", "Create"}

\* the loop after unload_css with its Err ignored
AfterUnloadAlways(ok) == "reloading"

\* the loop after unload_css with its Err returned to the caller
AfterUnloadReturns(ok) == IF ok THEN "reloading" ELSE "err"

\* the loop after unload_css: on Err it prints and continues
AfterUnload(ok) == IF ok THEN "reloading" ELSE "waiting"

\* the Disconnected arm returning Ok(())
OnDisconnectedOk == "ok"

\* the Disconnected arm: return Err("File watcher disconnected")
OnDisconnected == "err"

\* a receive that takes the newest event and drops the ones before it
RecvLatest(ch) == [event |-> ch[Len(ch)], rest |-> <<>>]

\* rx.recv_timeout returning Ok(event): the oldest event of the channel
Recv(ch) == [event |-> Head(ch), rest |-> Tail(ch)]

\* the commands of the watcher that the browser ran
Logged(log, r) == IF r.executed THEN Append(log, r.op) ELSE log

RECURSIVE Reloads(_)
\* the number of events of a sequence that start a reload
Reloads(evs) ==
    IF evs = <<>> THEN 0
    ELSE (IF StartsReload(Head(evs)) THEN 1 ELSE 0) + Reloads(Tail(evs))

\* the events still to come are bounded so that each can be handled within
\* the bounds on events and on commands
CanSend(evs) ==
    /\ wpc \in {"waiting", "reloading"}
    /\ events + Len(channel) + Len(evs) <= MaxEvents
    /\ message_id + 2 * Reloads(channel \o evs) + (IF wpc = "reloading" THEN 1 ELSE 0)
          <= MaxWatchCalls

\* watch_and_reload up to its loop: readable says the path exists and the
\* file can be read, watching that the watcher could be made
watch_and_reload(readable, css_content, id, watching, io) ==
    /\ wpc = "idle"
    /\ watched' = IF id.some THEN id.v ELSE WATCHED_SHEET
    /\ IF readable
       THEN /\ load_css(css_content, Some(watched'), io)
            /\ wpc' = IF result'.ok /\ watching THEN "waiting" ELSE "err"
            /\ wlog' = Logged(wlog, result')
       ELSE /\ wpc' = "err"
            /\ UNCHANGED wlog
            /\ UNCHANGED <<mgrVars, wireVars, frameVars, hostVars, cliVars, gateVars>>
    /\ UNCHANGED <<channel, rewrites, event, events>>

\* the closure of the watcher on the helper thread, once for each event of
\* a rewrite of the file: tx.send(event)
file_rewritten(burst) ==
    /\ CanSend(burst)
    /\ channel' = channel \o burst
    /\ rewrites' = rewrites + 1
    /\ UNCHANGED <<wpc, watched, wlog, event, events>>
    /\ UNCHANGED <<mgrVars, wireVars, frameVars, hostVars, cliVars, gateVars>>

\* the closure with unload_css called from it
notify_event_unloads(kind) ==
    /\ CanSend(<<kind>>)
    /\ channel' = Append(channel, kind)
    /\ unload_css(watched, "ok")
    /\ UNCHANGED <<wpc, watched, rewrites, wlog, event, events>>

\* the closure of the watcher on the helper thread for an event that is not
\* a rewrite: tx.send(event)
notify_event(kind) ==
    /\ CanSend(<<kind>>)
    /\ channel' = Append(channel, kind)
    /\ UNCHANGED <<wpc, watched, rewrites, wlog, event, events>>
    /\ UNCHANGED <<mgrVars, wireVars, frameVars, hostVars, cliVars, gateVars>>

\* a turn of the loop in which recv_timeout returned an event, up to the
\* return of unload_css
watch_event(io) ==
    /\ wpc = "waiting"
    /\ channel # <<>>
    /\ event' = Recv(channel).event
    /\ channel' = Recv(channel).rest
    /\ events' = events + 1
    /\ IF StartsReload(event')
       THEN /\ unload_css(watched, io)
            /\ wpc' = AfterUnload(result'.ok)
            /\ wlog' = Logged(wlog, result')
       ELSE /\ wpc' = "waiting"
            /\ UNCHANGED wlog
            /\ UNCHANGED <<mgrVars, wireVars, frameVars, hostVars, cliVars, gateVars>>
    /\ UNCHANGED <<watched, rewrites>>

\* the rest of the turn: the sleep, the read of the file and load_css
watch_reload(readable, new_css, io) ==
    /\ wpc = "reloading"
    /\ wpc' = "waiting"
    /\ IF readable
       THEN /\ load_css(new_css, Some(watched), io)
            /\ wlog' = Logged(wlog, result')
       ELSE /\ UNCHANGED wlog
            /\ UNCHANGED <<mgrVars, wireVars, frameVars, hostVars, cliVars, gateVars>>
    /\ UNCHANGED <<watched, channel, rewrites, event, events>>

\* recv_timeout returned Timeout: the next turn
watch_timeout ==
    /\ wpc = "waiting"
    /\ channel = <<>>
    /\ UNCHANGED vars

\* recv_timeout returned Disconnected
watch_disconnected ==
    /\ wpc = "waiting"
    /\ channel = <<>>
    /\ wpc' = OnDisconnected
    /\ UNCHANGED <<watched, channel, rewrites, wlog, event, events>>
    /\ UNCHANGED <<mgrVars, wireVars, frameVars, hostVars, cliVars, gateVars>>

\* a step of the thread that runs the loop
LoopTurn(texts) ==
    \/ \E io \in IO : watch_event(io)
    \/ \E readable \in BOOLEAN, css \in texts, io \in IO :
          watch_reload(readable, css, io)

NextWatch ==
    \/ \E io \in IO : wpc = "idle" /\ initialize_chrome_context(io) /\ UNCHANGED watchVars
    \/ \E readable \in BOOLEAN, css \in CssTexts, id \in {None, Some(<<"k">>)},
          watching \in BOOLEAN, io \in IO :
          watch_and_reload(readable, css, id, watching, io)
    \/ \E burst \in RewriteBursts : file_rewritten(burst)
    \/ \E kind \in EventKinds \ {"Modify", "Create"} : notify_event(kind)
    \/ \E io \in IO : watch_event(io)
    \/ \E readable \in BOOLEAN, css \in CssTexts, io \in IO :
          watch_reload(readable, css, io)
    \/ watch_timeout
    \/ watch_disconnected

SpecWatch == Init /\ [][NextWatch]_vars

\* the loop entered after a first load that succeeded, with a channel that
\* stays connected and every call returning, with Ok or with Err
NextWatchLive ==
    \/ wpc = "idle" /\ initialize_chrome_context("ok") /\ UNCHANGED watchVars
    \/ watch_and_reload(TRUE, <<"a">>, None, TRUE, "ok")
    \/ \E burst \in RewriteBursts : file_rewritten(burst)
    \/ notify_event("Remove")
    \/ LoopTurn({<<"a">>})
    \/ watch_timeout

\* the thread of the loop keeps running: a turn it can take is taken
SpecWatchLive == Init /\ [][NextWatchLive]_vars /\ WF_vars(LoopTurn({<<"a">>}))

(***************************************************************************)
(* JSON text as serde_json reads it.  A value is a record of one shape:    *)
(* t its type, n a number, s a string, m the members of an object in text  *)
(* order.  The documents used hold no arrays, escapes, signs or fractions; *)
(* those are rejected here.                                                *)
(***************************************************************************)
Fail == [ok |-> FALSE, v |-> JNull, next |-> 0]
Parsed(v, next) == [ok |-> TRUE, v |-> v, next |-> next]

DigitValue(c) == CHOOSE d \in 0..9 : Digits[d + 1] = c
IsDigit(c) == \E d \in 1..10 : Digits[d] = c

RECURSIVE SkipWs(_, _)
SkipWs(s, i) ==
    IF i <= Len(s) /\ s[i] \in {" ", "\n", "\t", "\r"} THEN SkipWs(s, i + 1) ELSE i

\* whether text w stands in s at position i
At(s, i, w) == i + Len(w) - 1 <= Len(s) /\ SubSeq(s, i, i + Len(w) - 1) = w

RECURSIVE ParseDigits(_, _, _)
ParseDigits(s, i, acc) ==
    IF i <= Len(s) /\ IsDigit(s[i])
    THEN ParseDigits(s, i + 1, 10 * acc + DigitValue(s[i]))
    ELSE Parsed(JNumber(acc), i)

\* a number: digits with no leading zero
ParseNumber(s, i) ==
    IF s[i] = "0" /\ i < Len(s) /\ IsDigit(s[i + 1]) THEN Fail
    ELSE ParseDigits(s, i, 0)

RECURSIVE ParseChars(_, _, _)
\* the characters of a string up to its closing quote
ParseChars(s, i, acc) ==
    IF i > Len(s) \/ s[i] = "\\" THEN Fail
    ELSE IF s[i] = "\"" THEN Parsed(JString(acc), i + 1)
    ELSE ParseChars(s, i + 1, Append(acc, s[i]))

RECURSIVE ParseValue(_, _)
RECURSIVE ParseMembers(_, _, _)

\* the members of an object, i after the opening brace or a comma
ParseMembers(s, i, acc) ==
    LET k == SkipWs(s, i)
    IN  IF k > Len(s) \/ s[k] # "\"" THEN Fail
        ELSE LET key == ParseChars(s, k + 1, <<>>)
                 c == IF key.ok THEN SkipWs(s, key.next) ELSE 0
             IN  IF ~key.ok \/ c > Len(s) \/ s[c] # ":" THEN Fail
                 ELSE LET val == ParseValue(s, c + 1)
                          e == IF val.ok THEN SkipWs(s, val.next) ELSE 0
                          more == Append(acc, [k |-> key.v.s, v |-> val.v])
                      IN  IF ~val.ok \/ e > Len(s) THEN Fail
                          ELSE IF s[e] = "," THEN ParseMembers(s, e + 1, more)
                          ELSE IF s[e] = "}" THEN Parsed(JObject(more), e + 1)
                          ELSE Fail

\* one JSON value starting at or after position i
ParseValue(s, i) ==
    LET k == SkipWs(s, i)
    IN  IF k > Len(s) THEN Fail
        ELSE IF s[k] = "{"
        THEN LET c == SkipWs(s, k + 1)
             IN  IF c <= Len(s) /\ s[c] = "}" THEN Parsed(JObject(<<>>), c + 1)
                 ELSE ParseMembers(s, k + 1, <<>>)
        ELSE IF s[k] = "\"" THEN ParseChars(s, k + 1, <<>>)
        ELSE IF IsDigit(s[k]) THEN ParseNumber(s, k)
        ELSE IF At(s, k, <<"n", "u", "l", "l">>) THEN Parsed(JNull, k + 4)
        ELSE IF At(s, k, <<"t", "r", "u", "e">>) THEN Parsed(JBool(TRUE), k + 4)
        ELSE IF At(s, k, <<"f", "a", "l", "s", "e">>) THEN Parsed(JBool(FALSE), k + 5)
        ELSE Fail

\* serde_json::from_str: one value, then nothing but whitespace
FromStr(s) ==
    LET p == ParseValue(s, 1)
    IN  IF p.ok /\ SkipWs(s, p.next) > Len(s) THEN p ELSE Fail

\* the member indices of object v that carry key
Keyed(v, key) == {i \in 1..Len(v.m) : v.m[i].k = key}

\* Value::get(key): the member of an object (the last one of that key), if any
Get(v, key) ==
    IF v.t = "object" /\ Keyed(v, key) # {}
    THEN [some |-> TRUE, v |-> v.m[CHOOSE i \in Keyed(v, key) : \A j \in Keyed(v, key) : j <= i].v]
    ELSE [some |-> FALSE, v |-> JNull]

(***************************************************************************)
(* One connection at the level of bytes (SpecWire): connect reads the      *)
(* peer's handshake, send_command writes a request and reads a response.   *)
(***************************************************************************)
GECKO == <<"g", "e", "c", "k", "o">>
APPLICATION_TYPE == <<"a", "p", "p", "l", "i", "c", "a", "t", "i", "o", "n", "T", "y", "p", "e">>
MARIONETTE_PROTOCOL == <<"m", "a", "r", "i", "o", "n", "e", "t", "t", "e", "P", "r", "o", "t", "o", "c", "o", "l">>
VALUE == <<"v", "a", "l", "u", "e">>
ERROR == <<"e", "r", "r", "o", "r">>

\* format!("{}:{}", msg_str.len(), msg_str)
Encode(msg_str) == ToDecimal(Len(msg_str)) \o <<":">> \o msg_str

\* the first index of character c in s, 0 when there is none
Find(s, c) ==
    IF \E i \in 1..Len(s) : s[i] = c
    THEN CHOOSE i \in 1..Len(s) : s[i] = c /\ \A j \in 1..(i - 1) : s[j] # c
    ELSE 0

\* BufReader::read_line on a fresh reader, the peer having sent bytes and then
\* closed (eof) or gone quiet: the text up to and with the first line feed;
\* all of it at end of file; an error when the read deadline passes first
ReadLine(bytes, eof) ==
    IF Find(bytes, "\n") # 0
    THEN [ok |-> TRUE, line |-> SubSeq(bytes, 1, Find(bytes, "\n"))]
    ELSE IF eof THEN [ok |-> TRUE, line |-> bytes]
    ELSE [ok |-> FALSE, line |-> <<>>]

\* response_line.find(':') and the slice after it
SplitFrame(response_line) ==
    LET colon_pos == Find(response_line, ":")
    IN  IF colon_pos = 0 THEN [ok |-> FALSE, json_str |-> <<>>]
        ELSE [ok |-> TRUE,
              json_str |-> SubSeq(response_line, colon_pos + 1, Len(response_line))]

Err == [ok |-> FALSE, val |-> JNull]
Ok(v) == [ok |-> TRUE, val |-> v]

\* send_command after the read with the value looked at before the error
InterpretValueFirst(response_line) ==
    LET f == SplitFrame(response_line)
        response == FromStr(f.json_str)
    IN  IF ~f.ok \/ ~response.ok THEN Err
        ELSE IF Get(response.v, VALUE).some THEN Ok(Get(response.v, VALUE).v)
        ELSE IF Get(response.v, ERROR).some THEN Err
        ELSE Ok(JNull)

\* send_command after the read: the Result made of the response line
Interpret(response_line) ==
    LET f == SplitFrame(response_line)
        response == FromStr(f.json_str)
    IN  IF ~f.ok \/ ~response.ok THEN Err
        ELSE IF Get(response.v, ERROR).some THEN Err
        ELSE Ok(Get(response.v, VALUE).v)

\* serde's derived Deserialize of MarionetteHandshake from the handshake line
DeserializeHandshake(handshake_line) ==
    LET p == FromStr(handshake_line)
        bad == [ok |-> FALSE, protocol |-> 0, application_type |-> <<>>]
    IN  IF ~p.ok \/ p.v.t # "object" THEN bad
        ELSE IF Cardinality(Keyed(p.v, MARIONETTE_PROTOCOL)) # 1 THEN bad
        ELSE IF Cardinality(Keyed(p.v, APPLICATION_TYPE)) # 1 THEN bad
        ELSE IF Get(p.v, MARIONETTE_PROTOCOL).v.t # "number" THEN bad
        ELSE IF Get(p.v, APPLICATION_TYPE).v.t # "string" THEN bad
        ELSE [ok |-> TRUE,
              protocol |-> Get(p.v, MARIONETTE_PROTOCOL).v.n,
              application_type |-> Get(p.v, APPLICATION_TYPE).v.s]

\* connect's two checks with the version check left out
HandshakeAcceptedAnyVersion(h) == h.application_type = GECKO

\* connect's two checks with the check of the application type left out
HandshakeAcceptedAnyApplication(h) == h.protocol = 3

\* connect's two checks of the handshake
HandshakeAccepted(h) == h.application_type = GECKO /\ h.protocol = 3

\* send_command's id with the counter incremented after it is read
AllocateIdAfterUse(mid) == [message_id |-> mid + 1, msg_id |-> mid]

\* self.message_id += 1; let msg_id = self.message_id
AllocateId(mid) == [message_id |-> mid + 1, msg_id |-> mid + 1]

\* ---- the peer
\* the handshake document a Marionette server of that version and family sends
HandshakeText(protocol, app) ==
    <<"{">> \o Quoted(APPLICATION_TYPE) \o <<":">> \o Quoted(app) \o <<",">>
        \o Quoted(MARIONETTE_PROTOCOL) \o <<":">> \o ToDecimal(protocol) \o <<"}">>

\* how the document is put on the socket: as a frame and then silence
\* ("frame"), as a frame and then end of file ("frame-eof"), as a frame and a
\* line feed ("frame-line"), bare and a line feed ("line"), bare and then end
\* of file ("json-eof")
Framed == {"frame", "frame-eof", "frame-line"}
Handshakes ==
    [protocol : {2, 3}, app : {GECKO, <<"o", "t", "h", "e", "r">>},
     style : {"frame", "frame-eof", "frame-line", "line", "json-eof"}]

HandshakeBytes(h) ==
    LET json == HandshakeText(h.protocol, h.app)
    IN  (IF h.style \in Framed THEN Encode(json) ELSE json)
            \o (IF h.style \in {"frame-line", "line"} THEN <<"\n">> ELSE <<>>)

Bodies ==
    { <<"{">> \o Quoted(VALUE) \o <<":", "1", "}">>,
      <<"{">> \o Quoted(ERROR) \o <<":">> \o Quoted(NOPE) \o <<"}">>,
      <<"{", "}">>,
      <<"{">> \o Quoted(ERROR) \o <<":">> \o Quoted(NOPE) \o <<",">>
            \o Quoted(VALUE) \o <<":", "1", "}">>,
      <<"{">> \o Quoted(VALUE) }

\* a response: the length its prefix declares, the body bytes that arrive, and
\* what follows them: a line feed ("line"), end of file ("eof") or silence
\* ("open")
Responses ==
    UNION {[declared : {Len(b), Len(b) + 2}, body : {b}, end : {"line", "eof", "open"}] :
           b \in Bodies}
\* what a read finds once the peer has closed the connection
Closed == [declared |-> 0, body |-> <<>>, end |-> "closed"]

ResponseBytes(r) ==
    IF r.end = "closed" THEN <<>>
    ELSE ToDecimal(r.declared) \o <<":">> \o r.body
            \o (IF r.end = "line" THEN <<"\n">> ELSE <<>>)

PeerClosed ==
    \/ handshake.style \in {"frame-eof", "json-eof"}
    \/ served.end \in {"eof", "closed"}

\* MarionetteClient::connect
connect(h) ==
    /\ conn = "none"
    /\ handshake' = h
    /\ LET r == ReadLine(HandshakeBytes(h), h.style \in {"frame-eof", "json-eof"})
           hs == DeserializeHandshake(r.line)
       IN  IF r.ok /\ hs.ok /\ HandshakeAccepted(hs)
           THEN conn' = "open" /\ message_id' = 0
           ELSE conn' = "closed" /\ UNCHANGED message_id
    /\ UNCHANGED <<served, sent, calls, reply>>
    /\ UNCHANGED <<loaded_sheets, singleton, sheets, sss, now, inflight, result>>
    /\ UNCHANGED <<frameVars, hostVars, watchVars>>

\* MarionetteClient::send_command; written says whether write_all and flush
\* succeeded, r is what the peer then sends
send_command(name, written, r) ==
    /\ conn = "open"
    /\ calls < MaxCalls
    /\ calls' = calls + 1
    /\ LET a == AllocateId(message_id)
       IN  /\ message_id' = a.message_id
           /\ sent' = IF written
                      THEN Append(sent, [call |-> calls + 1, id |-> a.msg_id, name |-> name])
                      ELSE sent
    /\ IF written
       THEN LET l == ReadLine(ResponseBytes(r), r.end \in {"eof", "closed"})
            IN  /\ served' = r
                /\ reply' = IF l.ok THEN Interpret(l.line) ELSE Err
       ELSE /\ reply' = Err
            /\ UNCHANGED served
    /\ UNCHANGED <<conn, handshake>>
    /\ UNCHANGED <<loaded_sheets, singleton, sheets, sss, now, inflight, result>>
    /\ UNCHANGED <<frameVars, hostVars, watchVars>>

MgrIdle ==
    /\ loaded_sheets = EmptyMap
    /\ singleton = FALSE
    /\ sheets = EmptyMap
    /\ sss = EmptyBag
    /\ now = 0
    /\ inflight = <<>>
    /\ result = NoResult

InitWire ==
    /\ MgrIdle
    /\ message_id = 0
    /\ WireIdle
    /\ FrameIdle
    /\ GateIdle
    /\ WatchIdle
    /\ HostIdle
    /\ CliIdle

NextWire ==
    \/ \E h \in Handshakes : connect(h) /\ UNCHANGED <<gateVars, cliVars>>
    \/ \E name \in {"Marionette:SetContext", "WebDriver:ExecuteScript"}, written \in BOOLEAN,
          r \in IF PeerClosed THEN {Closed} ELSE Responses :
          send_command(name, written, r) /\ UNCHANGED <<gateVars, cliVars>>

SpecWire == InitWire /\ [][NextWire]_vars

(***************************************************************************)
(* The construction of a manager and the privileged scripts its methods    *)
(* send (SpecGate), over the connection of SpecWire.  Three constructors   *)
(* are in the source: ChromeCSSManager::new of chrome_css_manager.rs,      *)
(* ScreenshotManager::new of screenshot.rs, and ChromeCSSManager::new of   *)
(* chrome-css-manager.rs.                                                  *)
(***************************************************************************)
MANAGER == "chrome_css_manager.rs"
SCREENSHOT == "screenshot.rs"
VARIANT == "chrome-css-manager.rs"

\* the scripts the methods of each send through execute_script
ScriptsOf(e) ==
    IF e = MANAGER THEN {"bootstrap", "load", "unload", "clear", "manifest"}
    ELSE IF e = SCREENSHOT THEN {"capture_full_screen", "capture_element"}
    ELSE {"bootstrap", "load", "unload", "clear"}

\* MarionetteConnection::connect as the constructor (or its caller) runs it;
\* the new of chrome-css-manager.rs returns the manager right after it
gate_connect(e, h) ==
    /\ entry = "none"
    /\ entry' = e
    /\ connect(h)
    /\ built' = IF conn' # "open" THEN "failed"
                ELSE IF e = VARIANT THEN "yes"
                ELSE "no"
    /\ UNCHANGED <<chrome, last_script, cliVars>>

\* connection.set_context("chrome")? of the constructor, and its Ok(...)
gate_set_context(written, r) ==
    /\ built = "no"
    /\ send_command("Marionette:SetContext", written, r)
    /\ chrome' = reply'.ok
    /\ built' = IF reply'.ok THEN "yes" ELSE "failed"
    /\ UNCHANGED <<entry, last_script, cliVars>>

\* a method of the manager sends its script: connection.execute_script
gate_script(kind, written, r) ==
    /\ built = "yes"
    /\ kind \in ScriptsOf(entry)
    /\ send_command("WebDriver:ExecuteScript", written, r)
    /\ last_script' = kind
    /\ UNCHANGED <<entry, built, chrome, cliVars>>

NextGate ==
    \/ \E e \in {MANAGER, SCREENSHOT, VARIANT}, h \in Handshakes : gate_connect(e, h)
    \/ \E written \in BOOLEAN, r \in IF PeerClosed THEN {Closed} ELSE Responses :
          gate_set_context(written, r)
    \/ \E kind \in ScriptsOf(entry), written \in BOOLEAN,
          r \in IF PeerClosed THEN {Closed} ELSE Responses :
          gate_script(kind, written, r)

SpecGate == InitWire /\ [][NextGate]_vars

(***************************************************************************)
(* One run of the command line (SpecCli): run_cli of cli.rs builds the     *)
(* manager, runs its bootstrap script and then the branch of the           *)
(* subcommand, over the connection of SpecWire.  The screenshot and exec   *)
(* branches open a connection of their own.                                *)
(***************************************************************************)
\* the scripts a branch of run_cli sends on the manager's session
CliScripts(cmd) ==
    IF cmd = "register-manifest" THEN {"manifest"}
    ELSE IF cmd = "load" THEN {"load"}
    ELSE IF cmd = "unload" THEN {"unload"}
    ELSE IF cmd = "clear" THEN {"clear"}
    ELSE IF cmd = "watch" THEN {"load", "unload"}
    ELSE IF cmd = "interactive" THEN {"load", "unload", "clear"}
    ELSE {}

\* a start-up step without its `?`
AfterStepIgnored(ok, next) == next

\* the `?` after a start-up step: run_cli goes on only when it returned Ok
AfterStep(ok, next) == IF ok THEN next ELSE "failed"

\* what the manager's session has written, with the Result of the call
CliLogged(kind, written, ok) ==
    IF written THEN Append(cli_log, [kind |-> kind, ok |-> ok]) ELSE cli_log

\* run_cli up to MarionetteConnection::connect of ChromeCSSManager::new
cli_connect(cmd, h) ==
    /\ cpc = "start"
    /\ subcommand' = cmd
    /\ connect(h)
    /\ cpc' = AfterStep(conn' = "open", "connected")
    /\ UNCHANGED <<second, cli_log, gateVars>>

\* connection.set_context("chrome")? of ChromeCSSManager::new
cli_set_context(written, r) ==
    /\ cpc = "connected"
    /\ send_command("Marionette:SetContext", written, r)
    /\ cli_log' = CliLogged("SetContext", written, reply'.ok)
    /\ cpc' = AfterStep(reply'.ok, "built")
    /\ UNCHANGED <<subcommand, second, gateVars>>

\* manager.initialize_chrome_context()?
cli_bootstrap(written, r) ==
    /\ cpc = "built"
    /\ send_command("WebDriver:ExecuteScript", written, r)
    /\ cli_log' = CliLogged("bootstrap", written, reply'.ok)
    /\ cpc' = AfterStep(reply'.ok, "ready")
    /\ UNCHANGED <<subcommand, second, gateVars>>

\* a call of the branch on the manager: load_css, unload_css, clear_all or
\* register_chrome_manifest
cli_script(kind, written, r) ==
    /\ cpc = "ready"
    /\ kind \in CliScripts(subcommand)
    /\ send_command("WebDriver:ExecuteScript", written, r)
    /\ cli_log' = CliLogged(kind, written, reply'.ok)
    \* watch and interactive call the manager again
    /\ cpc' = IF subcommand \in {"watch", "interactive"} THEN "ready" ELSE "returning"
    /\ UNCHANGED <<subcommand, second, gateVars>>

\* MarionetteConnection::connect of the screenshot and exec branches, up to
\* TcpStream::connect; connected says whether the browser's port took it
cli_second_connect(connected) ==
    /\ cpc = "ready"
    /\ subcommand \in {"screenshot", "exec"}
    /\ second = "none"
    /\ second' = IF connected THEN "open" ELSE "refused"
    /\ cpc' = IF connected THEN "second" ELSE "returning"
    /\ UNCHANGED <<subcommand, cli_log>>
    /\ UNCHANGED <<mgrVars, wireVars, frameVars, gateVars, watchVars, hostVars>>

\* the rest of the branch on its own connection: handshake, set_context,
\* the screenshot or the script
cli_second_session ==
    /\ cpc = "second"
    /\ cpc' = "returning"
    /\ UNCHANGED <<subcommand, second, cli_log>>
    /\ UNCHANGED <<mgrVars, wireVars, frameVars, gateVars, watchVars, hostVars>>

\* run_cli returns: the manager and the branch's connection are dropped
cli_return ==
    /\ cpc \in {"ready", "returning", "failed"}
    /\ cpc' = IF cpc = "failed" THEN "aborted" ELSE "exited"
    /\ conn' = IF conn = "open" THEN "closed" ELSE conn
    /\ second' = IF second = "open" THEN "closed" ELSE second
    /\ UNCHANGED <<subcommand, cli_log>>
    /\ UNCHANGED <<handshake, served, sent, calls, reply>>
    /\ UNCHANGED <<mgrVars, frameVars, gateVars, watchVars, hostVars>>

NextCli ==
    \/ \E cmd \in {"register-manifest", "load", "watch", "unload", "clear", "list",
                     "interactive", "screenshot", "exec", "other"},
          h \in Handshakes :
          cli_connect(cmd, h)
    \/ \E written \in BOOLEAN, r \in IF PeerClosed THEN {Closed} ELSE Responses :
          cli_set_context(written, r)
    \/ \E written \in BOOLEAN, r \in IF PeerClosed THEN {Closed} ELSE Responses :
          cli_bootstrap(written, r)
    \/ \E kind \in CliScripts(subcommand), written \in BOOLEAN,
          r \in IF PeerClosed THEN {Closed} ELSE Responses :
          cli_script(kind, written, r)
    \/ \E connected \in BOOLEAN : cli_second_connect(connected)
    \/ cli_second_session
    \/ cli_return

SpecCli == InitWire /\ [][NextCli]_vars

(***************************************************************************)
(* Framing as a pure function (SpecFrame): a payload is encoded the way    *)
(* send_command encodes a request and the frame is decoded the way         *)
(* send_command decodes a response, the frame being followed by end of     *)
(* file so that the read returns.                                          *)
(***************************************************************************)
Payloads ==
    { <<"{", "a", ":", "a", "a", "a", "a", "a", "a", "}">>,
      <<"{", "a", ":", "a", "a", "a", "\n", "a", "a", "a", "a", "}">> }
        \cup UNION {[1..n -> {"a", ":", "{", "\n"}] : n \in 1..MaxLen}

\* the read of send_command applied to a whole frame: the payload it hands to
\* the JSON parser
Decode(bytes) ==
    LET l == ReadLine(bytes, TRUE)
    IN  SplitFrame(l.line)

encode_frame ==
    /\ fpc = "new"
    /\ frame' = Encode(payload)
    /\ fpc' = "encoded"
    /\ UNCHANGED <<payload, decoded>>
    /\ UNCHANGED <<mgrVars, wireVars, gateVars, watchVars, hostVars, cliVars>>

decode_frame ==
    /\ fpc = "encoded"
    /\ decoded' = Decode(frame)
    /\ fpc' = "decoded"
    /\ UNCHANGED <<payload, frame>>
    /\ UNCHANGED <<mgrVars, wireVars, gateVars, watchVars, hostVars, cliVars>>

InitFrame ==
    /\ MgrIdle
    /\ message_id = 0
    /\ WireIdle
    /\ GateIdle
    /\ WatchIdle
    /\ HostIdle
    /\ CliIdle
    /\ payload \in Payloads
    /\ frame = <<>>
    /\ decoded = [ok |-> FALSE, json_str |-> <<>>]
    /\ fpc = "new"

NextFrame == encode_frame \/ decode_frame

SpecFrame == InitFrame /\ [][NextFrame]_vars

(***************************************************************************)
(* The manifest registrar (SpecManifest): register_manifest on the session *)
(* of the manager.  What execute_script returned is an input: an Err, or   *)
(* the value of the response that was read.                                *)
(***************************************************************************)
SUCCESS == <<"s", "u", "c", "c", "e", "s", "s">>
PATH == <<"p", "a", "t", "h">>
UNKNOWN_ERROR == <<"U", "n", "k", "n", "o", "w", "n", " ", "e", "r", "r", "o", "r">>

\* Path::canonicalize with / as the working directory: Err when the file
\* does not exist, else the absolute path
Canonicalize(path, exists) ==
    IF ~exists THEN [ok |-> FALSE, v |-> <<>>]
    ELSE [ok |-> TRUE, v |-> IF Head(path) = "/" THEN path ELSE <<"/">> \o path]

Member(key, value) == [k |-> key, v |-> value]

\* what execute_script can return for the script of register_manifest: the
\* two objects the script builds, and other values read on the session
ManifestResults(path_str) ==
    { Err,
      Ok(JObject(<<Member(SUCCESS, JBool(TRUE)), Member(PATH, JString(path_str))>>)),
      Ok(JObject(<<Member(SUCCESS, JBool(FALSE)), Member(ERROR, JString(NOPE))>>)),
      Ok(JObject(<<Member(SUCCESS, JBool(FALSE))>>)),
      Ok(JObject(<<Member(SUCCESS, JString(<<"y", "e", "s">>))>>)),
      Ok(JObject(<<Member(PATH, JString(path_str))>>)),
      Ok(JString(path_str)),
      Ok(JNull) }

\* Value::as_bool
AsBool(v) == IF v.t = "bool" THEN [some |-> TRUE, v |-> v.n = 1] ELSE [some |-> FALSE, v |-> FALSE]

\* result.get("success").and_then(|v| v.as_bool())
SuccessOf(value) ==
    IF Get(value, SUCCESS).some THEN AsBool(Get(value, SUCCESS).v)
    ELSE [some |-> FALSE, v |-> FALSE]

\* the record with the path stored for every value execute_script returned
RecordedOnAnyValue(previous, path_str, r) ==
    IF r.ok THEN Some(path_str) ELSE previous

\* manifest_path after the call: set only in the branch of success true
Recorded(previous, path_str, r) ==
    IF r.ok /\ SuccessOf(r.val).some /\ SuccessOf(r.val).v THEN Some(path_str)
    ELSE previous

\* the Result of register_manifest once execute_script has returned r
Registration(r) ==
    IF ~r.ok THEN [ok |-> FALSE, err |-> "session", msg |-> <<>>]
    ELSE IF ~SuccessOf(r.val).some THEN [ok |-> FALSE, err |-> "unexpected", msg |-> <<>>]
    ELSE IF SuccessOf(r.val).v THEN [ok |-> TRUE, err |-> "none", msg |-> <<>>]
    ELSE [ok |-> FALSE, err |-> "failed",
          msg |-> IF Get(r.val, ERROR).some /\ Get(r.val, ERROR).v.t = "string"
                  THEN Get(r.val, ERROR).v.s ELSE UNKNOWN_ERROR]

register_manifest(path, exists, utf8, r) ==
    LET absolute_path == Canonicalize(path, exists)
        sent_script == absolute_path.ok /\ utf8
        out == IF ~absolute_path.ok THEN [ok |-> FALSE, err |-> "canonicalize", msg |-> <<>>]
               ELSE IF ~utf8 THEN [ok |-> FALSE, err |-> "encoding", msg |-> <<>>]
               ELSE Registration(r)
    IN  /\ message_id < MaxCalls
        /\ r \in ManifestResults(absolute_path.v)
        /\ ~sent_script => r = Err
        /\ message_id' = IF sent_script THEN message_id + 1 ELSE message_id
        /\ manifest_path' = IF sent_script THEN Recorded(manifest_path, absolute_path.v, r)
                            ELSE manifest_path
        /\ registered' = [called |-> TRUE, path |-> path, exists |-> exists, utf8 |-> utf8,
                          r |-> r, ok |-> out.ok, err |-> out.err, msg |-> out.msg,
                          before |-> manifest_path]
        /\ UNCHANGED <<loaded_sheets, singleton, sheets, sss, now, inflight, result>>
        /\ UNCHANGED <<wireVars, frameVars, gateVars, watchVars, sessions, threads, cliVars>>

get_registered_path == manifest_path

NextManifest ==
    \E path \in ManifestPaths, exists \in BOOLEAN, utf8 \in BOOLEAN,
       r \in UNION {ManifestResults(Canonicalize(p, TRUE).v) : p \in ManifestPaths} :
       register_manifest(path, exists, utf8, r)

SpecManifest == Init /\ [][NextManifest]_vars

(***************************************************************************)
(* The component-model exports (SpecComponent).  An export locks the mutex *)
(* of its global, calls the manager or the connection in it, which writes  *)
(* a request and reads a response, and drops the guard when it returns.    *)
(* The browser answers the requests of a session in the order written.     *)
(***************************************************************************)
\* the global an export locks
GlobalOf(export) ==
    IF export \in {"execute_script", "connect"} THEN "MARIONETTE_CONN" ELSE "CSS_MANAGER"

\* the Err of an export that found None in its global
NOT_INITIALIZED == "Err: not initialized"

\* list_loaded reads the client registry and sends nothing
Sends(export) == export # "list_loaded"

\* Mutex::lock returns once no thread holds the guard
LockGranted(guard) == guard = "none"

\* the export returns value: its guard is dropped
Returned(t, g, value) ==
    /\ threads' = [threads EXCEPT ![t] = [pc |-> "idle", export |-> "none", ret |-> value]]
    /\ sessions' = [sessions EXCEPT ![g].guard = "none"]

\* a session stored although initialize or connect failed
StoredAlways(ok, old) ==
    [installed |-> TRUE, guard |-> "none", pending |-> 0, socket |-> 0,
     written |-> old.written]

\* what the global holds after initialize or connect: the new session when
\* the constructor and its start-up returned Ok, else what it held
Stored(ok, old) ==
    IF ok
    THEN [installed |-> TRUE, guard |-> "none", pending |-> 0, socket |-> 0,
          written |-> old.written]
    ELSE old

\* initialize or connect is called: the thread makes and prepares a session
\* of its own, without the lock
comp_call_install(t, installer) ==
    /\ threads[t].pc = "idle"
    /\ threads' = [threads EXCEPT ![t] =
                      [pc |-> "connecting", export |-> installer, ret |-> "none"]]
    /\ UNCHANGED <<sessions, manifest_path, registered, cliVars>>
    /\ UNCHANGED <<mgrVars, wireVars, frameVars, gateVars, watchVars>>

\* initialize or connect returns: when the session was made and prepared it
\* is stored in the global under its lock, and the session that was there is
\* dropped; else the export returns Err
comp_install(t, ok) ==
    LET g == GlobalOf(threads[t].export)
    IN  /\ threads[t].pc = "connecting"
        /\ ok => LockGranted(sessions[g].guard)
        /\ sessions' = [sessions EXCEPT ![g] = Stored(ok, @)]
        /\ threads' = [threads EXCEPT ![t] =
                          [pc |-> "idle", export |-> "none",
                           ret |-> IF ok THEN "Ok" ELSE "Err"]]
        /\ UNCHANGED <<manifest_path, registered, cliVars>>
        /\ UNCHANGED <<mgrVars, wireVars, frameVars, gateVars, watchVars>>

\* the first statement of an export: let guard = GLOBAL.lock().unwrap()
comp_lock(t, export) ==
    /\ threads[t].pc = "idle"
    /\ LockGranted(sessions[GlobalOf(export)].guard)
    /\ sessions' = [sessions EXCEPT ![GlobalOf(export)].guard = t]
    /\ threads' = [threads EXCEPT ![t] = [pc |-> "locked", export |-> export, ret |-> "none"]]
    /\ UNCHANGED <<manifest_path, registered, cliVars>>
    /\ UNCHANGED <<mgrVars, wireVars, frameVars, gateVars, watchVars>>

\* the global holds None, or the export is list_loaded: it returns without a
\* command
comp_return_unsent(t) ==
    /\ threads[t].pc = "locked"
    /\ ~sessions[GlobalOf(threads[t].export)].installed \/ ~Sends(threads[t].export)
    /\ Returned(t, GlobalOf(threads[t].export),
                IF sessions[GlobalOf(threads[t].export)].installed
                THEN "Ok" ELSE NOT_INITIALIZED)
    /\ UNCHANGED <<manifest_path, registered, cliVars>>
    /\ UNCHANGED <<mgrVars, wireVars, frameVars, gateVars, watchVars>>

\* send_command writes the request of the export, or fails to and returns Err
comp_write(t, wrote) ==
    LET g == GlobalOf(threads[t].export)
    IN  /\ threads[t].pc = "locked"
        /\ sessions[g].installed
        /\ Sends(threads[t].export)
        /\ sessions[g].written < MaxWrites
        /\ IF wrote
           THEN /\ sessions' = [sessions EXCEPT ![g].pending = @ + 1,
                                                ![g].written = @ + 1]
                /\ threads' = [threads EXCEPT ![t].pc = "sent"]
           ELSE Returned(t, g, "Err")
        /\ UNCHANGED <<manifest_path, registered, cliVars>>
        /\ UNCHANGED <<mgrVars, wireVars, frameVars, gateVars, watchVars>>

\* the browser answers the oldest request of a session
browser_answers(g) ==
    /\ sessions[g].pending > 0
    /\ sessions' = [sessions EXCEPT ![g].pending = @ - 1, ![g].socket = @ + 1]
    /\ UNCHANGED <<threads, manifest_path, registered, cliVars>>
    /\ UNCHANGED <<mgrVars, wireVars, frameVars, gateVars, watchVars>>

\* send_command reads the next line of the socket; the export returns what
\* the line holds, a value or an error
comp_read(t, ok) ==
    LET g == GlobalOf(threads[t].export)
    IN  /\ threads[t].pc = "sent"
        /\ sessions[g].socket > 0
        /\ threads' = [threads EXCEPT ![t] =
                          [pc |-> "idle", export |-> "none",
                           ret |-> IF ok THEN "Ok" ELSE "Err"]]
        /\ sessions' = [sessions EXCEPT ![g].guard = "none", ![g].socket = @ - 1]
        /\ UNCHANGED <<manifest_path, registered, cliVars>>
        /\ UNCHANGED <<mgrVars, wireVars, frameVars, gateVars, watchVars>>

\* no line arrives within the read timeout of 60 s: send_command returns Err
\* and the export returns
comp_read_timeout(t) ==
    LET g == GlobalOf(threads[t].export)
    IN  /\ threads[t].pc = "sent"
        /\ sessions[g].socket = 0
        /\ Returned(t, g, "Err")
        /\ UNCHANGED <<manifest_path, registered, cliVars>>
        /\ UNCHANGED <<mgrVars, wireVars, frameVars, gateVars, watchVars>>

NextComponent ==
    \/ \E t \in Threads, installer \in {"initialize", "connect"} : comp_call_install(t, installer)
    \/ \E t \in Threads, ok \in BOOLEAN : comp_install(t, ok)
    \/ \E t \in Threads,
          export \in {"load_css", "unload_css", "clear_all", "list_loaded",
                      "execute_script"} :
          comp_lock(t, export)
    \/ \E t \in Threads : comp_return_unsent(t)
    \/ \E t \in Threads, wrote \in BOOLEAN : comp_write(t, wrote)
    \/ \E g \in Globals : browser_answers(g)
    \/ \E t \in Threads, ok \in BOOLEAN : comp_read(t, ok)
    \/ \E t \in Threads : comp_read_timeout(t)

SpecComponent == Init /\ [][NextComponent]_vars

(***************************************************************************)
(* The registries (Spec).                                                  *)
(***************************************************************************)
\* C1: after any sequence of successful calls the client registry and the
\* in-browser registry hold the same identifiers.
RegistryMirror ==
    (result.op # "none" /\ result.clean) => list_loaded = DOMAIN sheets

\* C2: a load_css, unload_css or clear_all that returns an error leaves the
\* client registry as it was before the call, identifiers and source texts.
FailedCallLeavesRegistry ==
    (result.op \in {"load", "unload", "clear"} /\ ~result.ok)
        => loaded_sheets = result.before.loaded_sheets

\* C2 witness: a load whose request the browser ran failed on the client
\* while the registry held an entry.
FailedCallSeen ==
    /\ result.op = "load"
    /\ ~result.ok
    /\ result.executed
    /\ result.before.loaded_sheets # EmptyMap

\* C3: a load never replaces the entry of an identifier that is already in
\* the client registry.
NoSilentOverwrite ==
    (result.op = "load" /\ result.ok)
        => \A k \in DOMAIN result.before.loaded_sheets \cap DOMAIN loaded_sheets :
              loaded_sheets[k] = result.before.loaded_sheets[k]

\* C4: unload_css(id) removes id from the client registry exactly when the
\* browser's unload returned true; when the browser does not hold id, its
\* unload returns false, unload_css returns false and neither registry changes.
UnloadMirrorsRemote ==
    (result.op = "unload" /\ result.clean) =>
        LET id == result.id.v
            b == result.before
        IN  /\ loaded_sheets = IF result.remote = JsBool(TRUE)
                               THEN Remove(b.loaded_sheets, id)
                               ELSE b.loaded_sheets
            /\ id \notin DOMAIN b.sheets =>
                 /\ result.remote = JsBool(FALSE)
                 /\ result.val = JsBool(FALSE)
                 /\ loaded_sheets = b.loaded_sheets
                 /\ sheets = b.sheets
                 /\ sss = b.sss

\* C5: after a successful clear_all the browser has unregistered the sheet of
\* every identifier it held, its map is empty and the client registry is empty.
ClearAllEmptiesBoth ==
    (result.op = "clear" /\ result.ok) =>
        LET b == result.before
        IN  /\ sheets = EmptyMap
            /\ loaded_sheets = EmptyMap
            /\ \A u \in Range(b.sheets) :
                 CopiesIn(u, sss) + Cardinality({k \in DOMAIN b.sheets : b.sheets[k] = u})
                    = CopiesIn(u, b.sss)

\* C5 witness: a clear_all succeeded when the browser held two identifiers and
\* the client registry was not empty.
ClearAllSeen ==
    /\ result.op = "clear"
    /\ result.ok
    /\ Cardinality(DOMAIN result.before.sheets) >= 2
    /\ result.before.loaded_sheets # EmptyMap

(***************************************************************************)
(* The calls and the session they share (Spec).                            *)
(***************************************************************************)
\* C13: after a call failed with a timeout, a transport error or a framing
\* break, the session is not used again: no later step sends a command.
PoisonedNotReused ==
    [][result.err \in {"transport", "timeout", "framing"} => message_id' = message_id]_vars

\* C14: the value a call returns is the one the browser produced for that
\* call's own request.
PairedResponse ==
    (result.op # "none" /\ result.ok) => result.val = result.remote

\* C16: the bootstrap script run when the singleton exists keeps the
\* singleton, its map of identifiers and every registered sheet.
BootstrapIdempotent ==
    (result.op = "init" /\ result.executed /\ result.before.singleton) =>
        /\ singleton
        /\ sheets = result.before.sheets
        /\ sss = result.before.sss

\* C16 witness: the bootstrap script ran again while the browser held sheets.
BootstrapRepeated ==
    /\ result.op = "init"
    /\ result.executed
    /\ result.before.singleton
    /\ result.before.sheets # EmptyMap
    /\ result.before.sss # EmptyBag

\* C17: in a run of successful calls, load_css returns the identifier the
\* browser stored the sheet under, list_loaded holds it, and it is the
\* caller's identifier when one was given; unload_css of an identifier in
\* the registry returns true and takes it out of list_loaded.
LoadResult ==
    /\ (result.op = "load" /\ result.clean) =>
            /\ result.val.t = "string"
            /\ result.val.s \in DOMAIN sheets
            /\ result.val.s \in list_loaded
            /\ result.id.some => result.val.s = result.id.v
    /\ (result.op = "unload" /\ result.clean
            /\ result.id.v \in DOMAIN result.before.loaded_sheets) =>
            /\ result.val = JsBool(TRUE)
            /\ result.id.v \notin list_loaded

\* C18: a call answered with a remote error returns an error whose message
\* holds the error payload as the browser sent it, and the client registry
\* is as before the call.
RemoteErrorSurfaced ==
    result.err = "remote" =>
        /\ ~result.ok
        /\ \E i \in 1..Len(result.msg) : At(result.msg, i, <<"\"", "n", "o", "p", "e", "\"">>)
        /\ loaded_sheets = result.before.loaded_sheets

\* C18 witness: a load was answered with a remote error while the registry
\* held an entry.
RemoteErrorSeen ==
    /\ result.err = "remote"
    /\ result.op = "load"
    /\ result.before.loaded_sheets # EmptyMap

\* C19: the script of load_css and of unload_css makes the browser's method
\* receive the caller's source text and identifier, character for character.
EscapingExact ==
    /\ result.op = "load" =>
            LET script == LoadScript(result.css, result.id)
            IN  /\ JsCook(script.css, BACKTICK, <<>>) = [ok |-> TRUE, v |-> result.css]
                /\ result.id.some =>
                       JsCook(script.id.v, "'", <<>>) = [ok |-> TRUE, v |-> result.id.v]
    /\ result.op = "unload" =>
            JsCook(UnloadScript(result.id.v).id.v, "'", <<>>)
                = [ok |-> TRUE, v |-> result.id.v]

(***************************************************************************)
(* The session (SpecWire).                                                 *)
(***************************************************************************)
\* C6: the request written by the k-th send_command of a session carries id
\* k, failed calls counted; the ids written increase strictly, none twice.
IdMonotonic ==
    /\ \A i \in 1..Len(sent) : sent[i].id = sent[i].call
    /\ \A i, j \in 1..Len(sent) : i < j => sent[i].id < sent[j].id

\* C6 witness: three requests were written, one call wrote none and the last
\* call failed.
IdsSeen ==
    /\ Len(sent) >= 3
    /\ calls > Len(sent)
    /\ ~reply.ok

\* C7: a handshake that declares a protocol version other than 3 or another
\* application type makes connect fail: no session, the socket closed, and no
\* command ever sent.
HandshakeStrict ==
    (conn # "none" /\ (handshake.protocol # 3 \/ handshake.app # GECKO))
        => (conn = "closed" /\ sent = <<>> /\ calls = 0)

\* C7 witness: a well-formed line handshake of a gecko declaring protocol 2
\* was read and refused.
HandshakeRefused ==
    /\ conn = "closed"
    /\ handshake.style = "line"
    /\ handshake.protocol = 2
    /\ handshake.app = GECKO

\* C35: a request has been written, or a send_command made, only on a
\* connection whose handshake line was read and parsed and declared the
\* application type gecko and protocol 3; after a connect whose handshake
\* could not be read or parsed nothing has been written.
CommandAfterHandshake ==
    LET r == ReadLine(HandshakeBytes(handshake), handshake.style \in {"frame-eof", "json-eof"})
        hs == DeserializeHandshake(r.line)
    IN  /\ (sent # <<>> \/ calls > 0)
            => /\ conn = "open"
               /\ r.ok
               /\ hs.ok
               /\ hs.application_type = GECKO
               /\ hs.protocol = 3
        /\ (conn # "none" /\ ~(r.ok /\ hs.ok))
            => (conn = "closed" /\ sent = <<>> /\ calls = 0)

\* C35 witness: the first request, with id 1, was written on a connection
\* whose handshake had been accepted.
FirstCommandSent ==
    /\ conn = "open"
    /\ handshake.protocol = 3
    /\ handshake.app = GECKO
    /\ Len(sent) = 1
    /\ sent[1].id = 1

\* C8: a handshake sent as a length-prefixed frame that declares protocol 3
\* and the expected application type makes connect succeed.
FramedHandshakeAccepted ==
    (conn # "none" /\ handshake.style \in Framed
        /\ handshake.protocol = 3 /\ handshake.app = GECKO)
        => conn = "open"

\* C9: a response whose prefix declares more body bytes than arrive before
\* end of file makes the call fail, whatever the bytes that arrived.
ShortBodyRejected ==
    (calls > 0 /\ served.end = "eof" /\ served.declared > Len(served.body))
        => ~reply.ok

\* C11: a response whose body has the length its prefix declares is returned
\* once its last body byte has arrived, whether a line feed follows or the
\* peer stays silent, and the read consumes the prefix, the colon and the body
\* and no byte more.
FrameConsumedExactly ==
    (calls > 0 /\ Len(sent) = calls /\ served.end \in {"line", "open"}
        /\ served.declared = Len(served.body)) =>
        LET l == ReadLine(ResponseBytes(served), FALSE)
            one == ToDecimal(served.declared) \o <<":">> \o served.body
        IN  /\ l.ok
            /\ l.line = one
            /\ reply = Interpret(one)

\* C12: a response that is a JSON object makes the call fail exactly when it
\* has an error member; otherwise the call returns its value member, or null
\* when it has none.
ResponseInterpreted ==
    (calls > 0 /\ Len(sent) = calls /\ served.end \in {"line", "eof"}
        /\ FromStr(served.body).ok) =>
        LET response == FromStr(served.body).v
        IN  /\ reply.ok = ~Get(response, ERROR).some
            /\ reply.ok => reply.val = IF Get(response, VALUE).some
                                       THEN Get(response, VALUE).v
                                       ELSE JNull

\* C12 witness: a response with both an error and a value member was read and
\* the call failed.
ErrorWithValueSeen ==
    /\ calls > 0
    /\ Len(sent) = calls
    /\ served.end = "line"
    /\ Get(FromStr(served.body).v, ERROR).some
    /\ Get(FromStr(served.body).v, VALUE).some
    /\ ~reply.ok

(***************************************************************************)
(* The chrome context (SpecGate).                                          *)
(***************************************************************************)
\* C15: a privileged script is written on a session only after a
\* Marionette:SetContext "chrome" has returned Ok on it, and when that
\* SetContext fails no manager exists and no privileged script is written.
ChromeGate ==
    /\ (\E i \in 1..Len(sent) : sent[i].name = "WebDriver:ExecuteScript") => chrome
    /\ built = "failed" =>
            \A i \in 1..Len(sent) : sent[i].name # "WebDriver:ExecuteScript"

\* C36: on the manager's session of a run of the command line, SetContext is
\* the first command written and is written once, the bootstrap script is the
\* second and is written once, both after the connection was accepted; a
\* load, unload, clear or manifest script is written only after both returned
\* Ok, and a run whose start-up failed has written none.
StartupOrder ==
    /\ Len(cli_log) = Len(sent)
    /\ \A i \in DOMAIN cli_log :
          /\ sent[i].name = (IF cli_log[i].kind = "SetContext"
                             THEN "Marionette:SetContext"
                             ELSE "WebDriver:ExecuteScript")
          /\ (cli_log[i].kind = "SetContext") <=> (i = 1)
          /\ (cli_log[i].kind = "bootstrap") <=> (i = 2)
          /\ cli_log[i].kind \in {"load", "unload", "clear", "manifest"}
                => /\ handshake.protocol = 3 /\ handshake.app = GECKO
                   /\ cli_log[1].ok /\ cli_log[2].ok
    /\ cpc \in {"failed", "aborted"}
          => \A i \in DOMAIN cli_log :
                cli_log[i].kind \notin {"load", "unload", "clear", "manifest"}

\* a run that wrote a load script after its start-up, and returned
StylesheetAfterStartup ==
    /\ cpc = "exited"
    /\ Len(cli_log) = 3
    /\ cli_log[3].kind = "load"

\* C37: a run of the command line never has the manager's connection and a
\* connection of its own branch open at the same time.
SingleConnection == ~(conn = "open" /\ second = "open")

\* C31: a call that failed on the client after the browser had run its
\* request leaves the two registries with the same identifiers when they had
\* the same identifiers before it.
MirrorUnderLostResponses ==
    (/\ result.op \in {"load", "unload", "clear"}
     /\ ~result.ok
     /\ result.executed
     /\ result.err \in {"timeout", "framing"}
     /\ DOMAIN result.before.loaded_sheets = DOMAIN result.before.sheets)
        => list_loaded = DOMAIN sheets

\* C32: every style URI registered with the style-sheet service is the value
\* of some identifier in the in-browser map, and after a clear_all that
\* returned Ok none is registered.
NoOrphanedSheets ==
    /\ BagToSet(sss) \subseteq Range(sheets)
    /\ (result.op = "clear" /\ result.ok) => sss = EmptyBag

\* C33: a load_css that returned Ok adds to the client registry at most the
\* string it read as the answer, and nothing when the answer is not a string.
KeysFromRemote ==
    (result.op = "load" /\ result.ok)
        => (list_loaded \ DOMAIN result.before.loaded_sheets)
              \subseteq (IF result.val.t = "string" THEN {result.val.s} ELSE {})

\* C34: a load without an identifier that returned Ok returned an identifier
\* that was in neither registry before it.
AutoIdsDistinct ==
    (result.op = "load" /\ result.ok /\ ~result.id.some /\ result.val.t = "string")
        => /\ result.val.s \notin DOMAIN result.before.sheets
           /\ result.val.s \notin DOMAIN result.before.loaded_sheets

(***************************************************************************)
(* The watcher (SpecWatch).                                                *)
(***************************************************************************)
\* C20: in the loop of watch_and_reload an event of a kind other than Modify
\* and Create sends no command and leaves the client registry as it is; an
\* event of kind Modify or Create starts a reload, which sends the unload.
EventFilter ==
    [][events' = events + 1 =>
         IF event' \in {"Modify", "Create"}
         THEN message_id' = message_id + 1 /\ result'.op = "unload"
         ELSE /\ message_id' = message_id
              /\ loaded_sheets' = loaded_sheets
              /\ sheets' = sheets
              /\ wpc' = "waiting"]_vars

\* C20 witness: the loop received a Remove event while the watched sheet was
\* in the registry, and went on waiting.
EventIgnored ==
    /\ events > 0
    /\ event = "Remove"
    /\ wpc = "waiting"
    /\ watched \in list_loaded

\* C21: in the loop a load is sent only in the second half of a turn whose
\* unload, for the watched identifier, has been sent and has returned Ok;
\* the load is for the same identifier.
ReloadOrder ==
    [][(wpc \in {"waiting", "reloading"} /\ message_id' = message_id + 1
            /\ result'.op = "load")
         => /\ wpc = "reloading"
            /\ result.op = "unload"
            /\ result.id = Some(watched)
            /\ result.ok
            /\ result'.id = Some(watched)]_vars

\* C21 witness: a turn of the loop unloaded and then loaded the sheet.
ReloadCompleted ==
    /\ events > 0
    /\ wpc = "waiting"
    /\ result.op = "load"
    /\ result.ok
    /\ wlog = <<"load", "unload", "load">>

\* C22: after the first load and one rewrite of the file, with every call
\* answered Ok, every turn of the loop completed by its load and the loop
\* waiting again, the browser has run one unload and then one load, and the
\* client registry holds one identifier.
OneRewriteOneReload ==
    (rewrites = 1 /\ channel = <<>> /\ wpc = "waiting" /\ result.clean
        /\ result.op = "load" /\ events > 0
        /\ \A i \in 1..Len(wlog) : wlog[i] = IF i % 2 = 1 THEN "load" ELSE "unload")
      => /\ wlog = <<"load", "unload", "load">>
         /\ Cardinality(list_loaded) = 1

\* C23: a turn whose unload_css returned Err sends nothing else, has the
\* browser run no load and leaves the loop waiting; the next Modify or Create
\* event received after it sends an unload again.
UnloadFailureContinues ==
    [][/\ (events' = events + 1 /\ event' \in {"Modify", "Create"} /\ ~result'.ok)
            => /\ wpc' = "waiting"
               /\ result'.op = "unload"
               /\ message_id' = message_id + 1
               /\ wlog' \in {wlog, Append(wlog, "unload")}
       /\ (wpc = "waiting" /\ result.op = "unload" /\ ~result.ok
              /\ events' = events + 1 /\ event' \in {"Modify", "Create"})
            => /\ message_id' = message_id + 1
               /\ result'.op = "unload"
               /\ result'.id = Some(watched)]_vars

\* C23 witness: the unload of a turn failed, the loop waits and the next
\* event in the channel is a Modify or a Create.
UnloadFailedEventPending ==
    /\ wpc = "waiting"
    /\ events > 0
    /\ result.op = "unload"
    /\ ~result.ok
    /\ channel # <<>>
    /\ StartsReload(Head(channel))

\* C24: when the loop waits again after a turn whose unload returned Ok and
\* whose file read or load failed, the client registry has no entry for the
\* watched identifier.
FailedReloadLeavesNoEntry ==
    (wpc = "waiting" /\ events > 0
        /\ \/ result.op = "load" /\ ~result.ok
           \/ result.op = "unload" /\ result.ok)
      => watched \notin list_loaded

HelperOnlyPushes ==
    [][/\ Len(channel') > Len(channel)
            => /\ message_id' = message_id
               /\ loaded_sheets' = loaded_sheets
               /\ sheets' = sheets
               /\ wlog' = wlog
               /\ wpc' = wpc
               /\ events' = events
       /\ wpc = "reloading"
            => /\ events' = events
               /\ \E tail \in {<<>>} \cup RewriteBursts \cup
                              {<<k>> : k \in EventKinds} :
                      channel' = channel \o tail
               /\ message_id' # message_id => result'.op = "load"]_vars

\* C28 witness: an event arrived between the unload and the load of a turn.
EventWaitsDuringReload ==
    /\ wpc = "reloading"
    /\ channel # <<>>

\* C29: every event sent on the channel is received by the loop, the events
\* are received in the order they were sent, and a received Modify or Create
\* event sends the unload for the watched identifier.
EventsHandledInOrder ==
    /\ \A n \in 1..MaxEvents : (events + Len(channel) >= n) ~> (events >= n)
    /\ [][events' = events + 1
            => /\ event' = Head(channel)
               /\ channel' = Tail(channel)
               /\ event' \in {"Modify", "Create"}
                    => /\ message_id' = message_id + 1
                       /\ result'.op = "unload"
                       /\ result'.id = Some(watched)]_vars

\* C29 witness: two events of a rewrite were received and the second started
\* a reload after the first had.
SecondEventReloaded ==
    /\ events = 2
    /\ event = "Modify"
    /\ wpc = "reloading"
    /\ Len(wlog) >= 4

\* C30: while the loop runs the client registry is empty or holds the watched
\* identifier alone.
RegistryBound ==
    wpc \in {"waiting", "reloading"} => list_loaded \subseteq {watched}

(***************************************************************************)
(* The manifest registrar (SpecManifest).                                  *)
(***************************************************************************)
\* C26: the registrar holds no path or one path; after a register_manifest
\* that returned Ok the recorded path is the canonical form of the path given;
\* the call returns Ok only when the path could be canonicalised and encoded,
\* execute_script returned a value and its success member is the boolean true;
\* after a call that returned Err the recorded path is the one before it.
ManifestRecord ==
    /\ get_registered_path \in
          {None} \cup {Some(Canonicalize(p, TRUE).v) : p \in ManifestPaths}
    /\ registered.called =>
          /\ registered.ok <=>
                /\ registered.exists
                /\ registered.utf8
                /\ registered.r.ok
                /\ Get(registered.r.val, SUCCESS) = Some(JBool(TRUE))
          /\ IF registered.ok
             THEN get_registered_path = Some(Canonicalize(registered.path, TRUE).v)
             ELSE get_registered_path = registered.before

\* C26 witness: with a path recorded, a registration of another path was
\* answered with an object whose success is not a boolean; the call returned
\* Err and the record is the earlier path.
ManifestRecordKept ==
    /\ registered.called
    /\ registered.before = Some(<<"/", "n">>)
    /\ registered.path = <<"m">>
    /\ registered.r.ok
    /\ Get(registered.r.val, SUCCESS).some
    /\ Get(registered.r.val, SUCCESS).v.t = "string"
    /\ ~registered.ok
    /\ registered.err = "unexpected"
    /\ get_registered_path = Some(<<"/", "n">>)

(***************************************************************************)
(* The component-model exports (SpecComponent).                            *)
(***************************************************************************)
\* C27: an export writes its request on a session only when every request
\* written on that session before has been answered.
OneCommandInFlight ==
    [][\A g \in Globals :
          sessions'[g].written = sessions[g].written + 1 => sessions[g].pending = 0]_vars

\* C38: an export that finds None in its global returns the Err of the
\* uninitialised binding, writes nothing and leaves the global None; an
\* initialize or connect that returns Err leaves the globals as they were.
UninitialisedBinding ==
    [][\A t \in Threads :
          LET g == GlobalOf(threads[t].export)
          IN  /\ (threads[t].pc = "locked" /\ ~sessions[g].installed
                    /\ threads'[t] # threads[t])
                  => /\ threads'[t].pc = "idle"
                     /\ threads'[t].ret = NOT_INITIALIZED
                     /\ sessions' = [sessions EXCEPT ![g].guard = "none"]
              /\ (threads[t].pc = "connecting" /\ threads'[t].pc = "idle"
                    /\ threads'[t].ret = "Err")
                  => sessions' = sessions]_vars

\* one thread was refused on a global that is None, after the initialize of
\* the other returned Err; nothing was written
RefusedAfterFailedInitialize ==
    /\ \A g \in Globals : ~sessions[g].installed /\ sessions[g].written = 0
    /\ threads["t1"].pc = "idle" /\ threads["t1"].ret = "Err"
    /\ threads["t2"].pc = "idle" /\ threads["t2"].ret = NOT_INITIALIZED

(***************************************************************************)
(* Framing (SpecFrame).                                                    *)
(***************************************************************************)
\* C10: the frame of a payload of n bytes starts with the decimal of n, and
\* decoding the frame returns the payload.
FramingRoundTrip ==
    /\ fpc # "new" => SubSeq(frame, 1, Find(frame, ":") - 1) = ToDecimal(Len(payload))
    /\ fpc = "decoded" => (decoded.ok /\ decoded.json_str = payload)
=============================================================================
